---- MODULE Spec2Model ----
\* The emulator display window of Chippus (src/application/emu_window.rs):
\* the monochrome screen of the emulator is converted to an RGBA byte image
\* and copied into one GPU texture of the renderer's texture pool each frame;
\* render draws that texture, tinted and scaled, in an imgui window.
EXTENDS Integers, Sequences, FiniteSets, TLC

\* ---------------------------------------------------------------- bounds
\* Screen::WIDTH is 1 .. MaxNarrowWidth or AlignedWidth, Screen::HEIGHT is
\* 1 .. MaxHeight.
MaxNarrowWidth == 2
MaxHeight == 2
\* The queue accepts at most MaxSubmits command buffers in one behaviour.
MaxSubmits == 2

\* ------------------------------------------------------------- constants
\* f32 values are kept in hundredths: 0.19 is 19, 1.0 is 100.
InitScale == 9
InitColor == [r |-> 19, g |-> 66, b |-> 38, a |-> 100]
\* what the colour editor of render can hand back this frame
PickedColors == {[r |-> 100, g |-> 100, b |-> 100, a |-> 100],
                 [r |-> 19, g |-> 66, b |-> 38, a |-> 100]}
\* n as u32: n modulo 2^32, computed in 16-bit halves
AsU32(n) == (n % 65536) + 65536 * ((n \div 65536) % 65536)
\* the row pitch alignment wgpu asks of copy_buffer_to_texture
COPY_BYTES_PER_ROW_ALIGNMENT == 256
\* the width of the classic 64 x 32 screen: its rows of 64 * 4 bytes are the
\* narrowest that meet the alignment
AlignedWidth == 64

\* Option<T>: None is the empty tuple, Some(v) the one-element tuple.
None == << >>
Some(v) == <<v>>

NoCopy == [kind |-> "none"]
NoDraw == [kind |-> "none"]
NoFrame == [kind |-> "none"]

VARIABLES
    screen,      \* emulator.screen: <<x, y>> -> 0 or 1
    data,        \* EmulatorWindow.data: Vec<u8>, data[i + 1] is byte i
    width,       \* EmulatorWindow.width
    height,      \* EmulatorWindow.height
    scale,       \* EmulatorWindow.scale
    color,       \* EmulatorWindow.color
    tex_id,      \* EmulatorWindow.tex_id
    textures,    \* renderer.textures: id -> texture
    next_id,     \* renderer.textures.next, the id the next insert returns
    creates,     \* number of create_texture calls made so far
    submits,     \* number of command buffers handed to queue.submit
    lastCopy,    \* the arguments of the latest copy_buffer_to_texture
    lastDraw,    \* the latest Image draw of render
    upload_ret,  \* what the latest update_texture returned (None before any)
    update_ret,  \* what the latest update returned to its caller
    frame,       \* the screen the latest update sampled
    op,          \* the method of the window, or of the pool, called last
    panicked     \* "no", or why the thread panicked: "slice index" out of
                 \* range in update, "copy rejected" by wgpu's validation

vars == <<screen, data, width, height, scale, color, tex_id, textures, next_id,
          creates, submits, lastCopy, lastDraw, upload_ret, update_ret,
          frame, op, panicked>>

\* ------------------------------------------------------------ the screen
Coords(w, h) == (0 .. w - 1) \X (0 .. h - 1)
Shapes == ((1 .. MaxNarrowWidth) \cup {AlignedWidth}) \X (1 .. MaxHeight)
\* the pixels the emulator draws one at a time: three corners of the screen
Corners(w, h) == {<<0, 0>>, <<w - 1, 0>>, <<w - 1, h - 1>>}

\* Screen::get_pixel(x, y)
get_pixel(s, x, y) == s[<<x, y>>]

\* ---------------------------------------------------- the frame converter
\* let v = if get_pixel(x, y) == 1 { 255u8 } else { 0 }
PixelValue(p) == IF p = 1 THEN 255 ELSE 0

\* a mutant: the alpha byte follows the pixel
Texel_alpha_v(v) == <<v, v, v, v>>

\* &[v, v, v, 255u8]
Texel(v) == <<v, v, v, 255>>

\* a mutant: x and y swapped in the offset
Pos_swapped(x, y, w) == (x * 4 * w) + (y * 4)

\* a mutant: the offset runs one pixel ahead
Pos_off_by_one(x, y, w) == (y * 4 * w) + ((x + 1) * 4)

\* let pos = (y * 4 * self.width) + (x * 4)
Pos(x, y, w) == (y * 4 * w) + (x * 4)

\* self.data[pos..pos + 4].copy_from_slice(src): the slice index panics when
\* pos + 4 is beyond the vector, copy_from_slice panics when src is not four
\* bytes long, otherwise the four bytes are overwritten.
copy_from_slice(d, pos, src) ==
    IF pos + 4 > Len(d) \/ Len(src) # 4
    THEN [data |-> d, panicked |-> TRUE]
    ELSE [data |-> [d EXCEPT ![pos + 1] = src[1], ![pos + 2] = src[2],
                             ![pos + 3] = src[3], ![pos + 4] = src[4]],
          panicked |-> FALSE]

\* The body of the loops at (x, y): one pixel read, four bytes written.
ConvertPixel(r, s, x, y, w) ==
    IF r.panicked THEN r
    ELSE copy_from_slice(r.data, Pos(x, y, w), Texel(PixelValue(get_pixel(s, x, y))))

\* for y in 0..height { ... } at one x, for the y of lo .. hi - 1 in
\* ascending order (the range is halved to keep the evaluation shallow); a
\* panic ends the loop where it happens.
RECURSIVE ForY(_, _, _, _, _, _)
ForY(lo, hi, r, s, x, w) ==
    IF r.panicked \/ lo >= hi THEN r
    ELSE IF hi = lo + 1 THEN ConvertPixel(r, s, x, lo, w)
    ELSE LET mid == (lo + hi) \div 2
         IN ForY(mid, hi, ForY(lo, mid, r, s, x, w), s, x, w)

\* for x in 0..width { for y in 0..height { ... } }, for the x of
\* lo .. hi - 1 in ascending order.
RECURSIVE ForX(_, _, _, _, _, _)
ForX(lo, hi, r, s, w, h) ==
    IF r.panicked \/ lo >= hi THEN r
    ELSE IF hi = lo + 1 THEN ForY(0, h, r, s, lo, w)
    ELSE LET mid == (lo + hi) \div 2
         IN ForX(mid, hi, ForX(lo, mid, r, s, w, h), s, w, h)

\* the conversion of update: data after the loops, and whether they panicked
FrameConverter(d, s, w, h) ==
    ForX(0, w, [data |-> d, panicked |-> FALSE], s, w, h)

\* ------------------------------------------------------------ the texture
\* TextureConfig of create_texture, with the texel bytes of a fresh texture
\* (wgpu hands out zeroed texture memory).
NewTexture(w, h) ==
    [kind |-> "emulator",
     size |-> [width |-> w, height |-> h, depth_or_array_layers |-> 1],
     mip_level_count |-> 1,
     sample_count |-> 1,
     dimension |-> "D2",
     format |-> "Rgba8Unorm",
     usage |-> {"SAMPLED", "COPY_DST"},
     bytes |-> [i \in 1 .. w * h * 4 |-> 0]]

\* renderer.textures.insert(texture): the pool with the texture under the
\* next free id, and that id.
create_texture(pool, next, w, h) ==
    [textures |-> [i \in DOMAIN pool \cup {next} |->
                     IF i = next THEN NewTexture(AsU32(w), AsU32(h)) ELSE pool[i]],
     next_id  |-> next + 1,
     id       |-> next]

\* std::num::NonZeroU32::new(n)
NonZeroU32_new(n) == IF n = 0 THEN None ELSE Some(n)

\* a mutant: the row pitch taken from the width instead of the height
BytesPerRow_by_width(bytes, w, h) == AsU32(bytes) \div AsU32(w)

\* bytes as u32 / self.height as u32
BytesPerRow(bytes, w, h) == AsU32(bytes) \div AsU32(h)

\* ImageDataLayout { offset, bytes_per_row, rows_per_image }
ImageDataLayout(bytes, w, h) ==
    [offset |-> 0,
     bytes_per_row |-> NonZeroU32_new(BytesPerRow(bytes, w, h)),
     rows_per_image |-> NonZeroU32_new(AsU32(h))]

\* The copy wgpu records for copy_buffer_to_texture: texel (c, r) of the
\* extent, placed at the origin, takes the four bytes of the buffer at
\* offset + r * bytes_per_row + c * 4. wgpu's validation accepts the copy
\* when bytes_per_row is given and is a multiple of
\* COPY_BYTES_PER_ROW_ALIGNMENT, the extent lies in the texture and the rows
\* it reads lie in the buffer.
CopyInRange(buffer, c) ==
    /\ c.layout.bytes_per_row # None
    /\ c.layout.bytes_per_row[1] % COPY_BYTES_PER_ROW_ALIGNMENT = 0
    /\ c.layout.bytes_per_row[1] >= c.extent.width * 4
    /\ c.origin.x + c.extent.width <= c.size.width
    /\ c.origin.y + c.extent.height <= c.size.height
    /\ c.layout.offset + (c.extent.height - 1) * c.layout.bytes_per_row[1]
         + c.extent.width * 4 <= Len(buffer)

\* a mutant: the copy blends into the texture, keeping the brighter byte
CopiedBytes_blend(buffer, old, c) ==
    [i \in 1 .. Len(old) |->
        LET t  == (i - 1) \div 4
            k  == (i - 1) % 4
            tx == t % c.size.width
            ty == t \div c.size.width
            b  == buffer[c.layout.offset + ty * c.layout.bytes_per_row[1] + tx * 4 + k + 1]
        IN IF b > old[i] THEN b ELSE old[i]]

\* the texel bytes of the texture after the copy
CopiedBytes(buffer, old, c) ==
    [i \in 1 .. Len(old) |->
        LET t  == (i - 1) \div 4
            k  == (i - 1) % 4
            tx == t % c.size.width
            ty == t \div c.size.width
            cx == tx - c.origin.x
            cy == ty - c.origin.y
        IN IF cx >= 0 /\ cx < c.extent.width /\ cy >= 0 /\ cy < c.extent.height
           THEN buffer[c.layout.offset + cy * c.layout.bytes_per_row[1] + cx * 4 + k + 1]
           ELSE old[i]]

\* ----------------------------------------------------------------- Init
\* EmulatorWindow::new on a renderer whose pool is empty, with an emulator
\* whose screen is clear.
Init ==
    \E s \in Shapes :
        LET w == s[1]
            h == s[2]
            made == create_texture(<< >>, 0, w, h)
        IN /\ screen = [c \in Coords(w, h) |-> 0]
           /\ data = [i \in 1 .. w * h * 4 |-> 0]
           /\ width = w
           /\ height = h
           /\ scale = InitScale
           /\ color = InitColor
           /\ tex_id = made.id
           /\ textures = made.textures
           /\ next_id = made.next_id
           /\ creates = 1
           /\ submits = 0
           /\ lastCopy = NoCopy
           /\ lastDraw = NoDraw
           /\ upload_ret = None
           /\ update_ret = "not called"
           /\ frame = NoFrame
           /\ op = "new"
           /\ panicked = "no"

\* -------------------------------------------------------------- actions
\* The emulator draws: a corner pixel of its screen flips, or the whole
\* screen is cleared or filled.
emulator_step ==
    /\ panicked = "no"
    /\ \/ \E c \in Corners(width, height) :
              screen' = [screen EXCEPT ![c] = 1 - @]
       \/ \E v \in {0, 1} :
              /\ screen' = [c \in Coords(width, height) |-> v]
              /\ screen' # screen
    /\ UNCHANGED <<op, data, width, height, scale, color, tex_id, textures, next_id,
                   creates, submits, lastCopy, lastDraw, upload_ret,
                   update_ret, frame, panicked>>

\* The owner of the renderer removes a texture from the pool.
remove_texture ==
    /\ panicked = "no"
    /\ \E id \in DOMAIN textures :
           textures' = [i \in DOMAIN textures \ {id} |-> textures[i]]
    /\ op' = "remove"
    /\ UNCHANGED <<screen, data, width, height, scale, color, tex_id, next_id,
                   creates, submits, lastCopy, lastDraw, upload_ret,
                   update_ret, frame, panicked>>

\* [self.r, self.g, self.b, self.a]
to_array(c) == <<c.r, c.g, c.b, c.a>>

\* a mutant: render makes a new texture for the image it draws
render_recreate ==
    /\ panicked = "no"
    /\ LET made == create_texture(textures, next_id, width, height)
       IN /\ tex_id' = made.id
          /\ textures' = made.textures
          /\ next_id' = made.next_id
          /\ creates' = creates + 1
          /\ lastDraw' = [kind |-> "image", tex |-> made.id,
                          size |-> <<width * scale, height * scale>>,
                          tint |-> to_array(color)]
    /\ op' = "render"
    /\ UNCHANGED <<screen, data, width, height, scale, color, submits, lastCopy,
                   upload_ret, update_ret, frame, panicked>>

\* EmulatorWindow::render: one Image of the texture, width * scale by
\* height * scale, tinted with color; the colour editor edits the temporary
\* array color.to_array() made for it, which is dropped.
render ==
    /\ panicked = "no"
    /\ \E picked \in PickedColors :
           LET edited == to_array(picked)
           IN /\ lastDraw' = [kind |-> "image", tex |-> tex_id,
                              size |-> <<width * scale, height * scale>>,
                              tint |-> to_array(color)]
              /\ color' = color
    /\ op' = "render"
    /\ UNCHANGED <<screen, data, width, height, scale, tex_id, textures, next_id,
                   creates, submits, lastCopy, upload_ret, update_ret, frame,
                   panicked>>

\* the copy update_texture asks for, on the texture found under id
CopyCommand(id, d) ==
    [kind |-> "copy",
     id |-> id,
     layout |-> ImageDataLayout(Len(d), width, height),
     mip_level |-> 0,
     origin |-> [x |-> 0, y |-> 0, z |-> 0],
     extent |-> [width |-> AsU32(width), height |-> AsU32(height),
                 depth_or_array_layers |-> 1],
     size |-> textures[id].size]

\* a mutant: the command buffer is submitted before the texture is looked up
update_texture_submit_first(id, d) ==
    IF id \notin DOMAIN textures
    THEN /\ upload_ret' = None
         /\ submits' = submits + 1
         /\ UNCHANGED <<textures, lastCopy, panicked>>
    ELSE LET c == CopyCommand(id, d)
         IN /\ lastCopy' = c
            /\ submits' = submits + 1
            /\ IF CopyInRange(d, c)
               THEN /\ textures' = [textures EXCEPT ![id].bytes =
                                        CopiedBytes(d, textures[id].bytes, c)]
                    /\ upload_ret' = Some(TRUE)
                    /\ UNCHANGED panicked
               ELSE /\ panicked' = "copy rejected"
                    /\ UNCHANGED <<textures, upload_ret>>

\* EmulatorWindow::update_texture: the staging buffer holds a copy of data;
\* renderer.textures.get(id)? returns None before the copy is recorded;
\* otherwise the copy is recorded and queue.submit runs it. A copy wgpu's
\* validation rejects (row pitch not aligned, out of the buffer or of the
\* texture) panics before anything is submitted.
update_texture(id, d) ==
    IF id \notin DOMAIN textures
    THEN /\ upload_ret' = None
         /\ UNCHANGED <<textures, submits, lastCopy, panicked>>
    ELSE LET c == CopyCommand(id, d)
         IN /\ lastCopy' = c
            /\ IF CopyInRange(d, c)
               THEN /\ textures' = [textures EXCEPT ![id].bytes =
                                        CopiedBytes(d, textures[id].bytes, c)]
                    /\ submits' = submits + 1
                    /\ upload_ret' = Some(TRUE)
                    /\ UNCHANGED panicked
               ELSE /\ panicked' = "copy rejected"
                    /\ UNCHANGED <<textures, submits, upload_ret>>

\* a mutant: update makes a new texture for every frame
update_recreate ==
    /\ panicked = "no"
    /\ submits < MaxSubmits
    /\ LET conv == FrameConverter(data, screen, width, height)
           made == create_texture(textures, next_id, width, height)
           c == [CopyCommand(tex_id, conv.data) EXCEPT !.id = made.id]
       IN /\ data' = conv.data
          /\ tex_id' = made.id
          /\ next_id' = made.next_id
          /\ creates' = creates + 1
          /\ lastCopy' = c
          /\ textures' = [made.textures EXCEPT ![made.id].bytes =
                              CopiedBytes(conv.data, @, c)]
          /\ submits' = submits + 1
          /\ upload_ret' = Some(TRUE)
          /\ update_ret' = "unit"
    /\ frame' = screen
    /\ op' = "update"
    /\ UNCHANGED <<screen, width, height, scale, color, lastDraw, panicked>>

\* EmulatorWindow::update: convert the emulator's screen into data, then
\* upload data to the texture tex_id; what update_texture returns is dropped
\* and update returns ().
update ==
    /\ panicked = "no"
    /\ submits < MaxSubmits
    /\ LET conv == FrameConverter(data, screen, width, height)
       IN /\ data' = conv.data
          /\ IF conv.panicked
             THEN /\ panicked' = "slice index"
                  /\ UNCHANGED <<textures, submits, lastCopy, upload_ret,
                                 update_ret>>
             ELSE /\ update_texture(tex_id, conv.data)
                  /\ update_ret' = IF panicked' = "no" THEN "unit" ELSE update_ret
    /\ frame' = screen
    /\ op' = "update"
    /\ UNCHANGED <<screen, width, height, scale, color, tex_id, next_id, creates,
                   lastDraw>>

Next ==
    \/ emulator_step
    \/ remove_texture
    \/ render
    \/ update

Spec == Init /\ [][Next]_vars

\* --------------------------------------------------------------- claims
\* The four bytes of a byte sequence at byte offset off.
BytesAt(d, off) == <<d[off + 1], d[off + 2], d[off + 3], d[off + 4]>>

White == <<255, 255, 255, 255>>
Black == <<0, 0, 0, 255>>

\* The image the specification asks of a screen s of w by h pixels: row
\* major, four bytes a pixel, white where the pixel is set, black elsewhere.
RGBAImage(s, w, h) ==
    [i \in 1 .. w * h * 4 |->
        LET t == (i - 1) \div 4
        IN IF (i - 1) % 4 = 3 THEN 255
           ELSE IF s[<<t % w, t \div w>>] = 1 THEN 255 ELSE 0]

\* update has run its conversion loop to the end
Updated == frame # NoFrame /\ panicked # "slice index"

\* C1: after update, for every (x, y) of the screen it sampled, the four
\* bytes of data at offset (y*4*WIDTH)+(x*4) are [255,255,255,255] if the
\* pixel is set and [0,0,0,255] otherwise.
C1_ConvertedPixels ==
    Updated =>
        \A c \in Coords(width, height) :
            BytesAt(data, (c[2] * 4 * width) + (c[1] * 4)) =
                IF frame[c] = 1 THEN White ELSE Black

\* update has converted and uploaded a screen, wider and higher than one
\* pixel, on which only the two opposite corners are set.
C1_Witness ==
    /\ Updated
    /\ op = "update"
    /\ panicked = "no"
    /\ upload_ret = Some(TRUE)
    /\ width > 1
    /\ height > 1
    /\ \A c \in Coords(width, height) :
           frame[c] = 1 <=> c \in {<<0, 0>>, <<width - 1, height - 1>>}
    /\ BytesAt(data, 0) = White
    /\ BytesAt(data, ((height - 1) * 4 * width) + ((width - 1) * 4)) = White

\* C2 as stated: in every reachable state, from construction on, every pixel
\* of data has R = G = B and alpha 255.
C2_AlwaysOpaque ==
    \A t \in 0 .. (Len(data) \div 4) - 1 :
        LET px == BytesAt(data, t * 4)
        IN px[1] = px[2] /\ px[2] = px[3] /\ px[4] = 255

\* C2 amended: every pixel of data has R = G = B in every reachable state,
\* and alpha 255 in every state reached after update has run; new fills the
\* buffer with zeros, alpha included.
C2_OpaqueOnceUpdated ==
    \A t \in 0 .. (Len(data) \div 4) - 1 :
        LET px == BytesAt(data, t * 4)
        IN /\ px[1] = px[2]
           /\ px[2] = px[3]
           /\ Updated => px[4] = 255
           /\ frame = NoFrame => px[4] = 0

\* update has converted a screen with a set and an unset pixel.
C2_Witness ==
    /\ Updated
    /\ panicked = "no"
    /\ \E c \in Coords(width, height) : frame[c] = 1 /\ BytesAt(data, Pos(c[1], c[2], width)) = White
    /\ \E c \in Coords(width, height) : frame[c] = 0 /\ BytesAt(data, Pos(c[1], c[2], width)) = Black

\* C3: data has length WIDTH*HEIGHT*4 in every reachable state and no write
\* of update falls outside it (an outside write panics).
C3_LengthFixed ==
    /\ Len(data) = width * height * 4
    /\ panicked # "slice index"

\* update has written the last four bytes of a buffer of several rows and
\* of several columns.
C3_Witness ==
    /\ op = "update"
    /\ panicked = "no"
    /\ width > 1
    /\ height > 1
    /\ frame # NoFrame
    /\ frame[<<width - 1, height - 1>>] = 1
    /\ data[width * height * 4] = 255
    /\ data[width * height * 4 - 3] = 255

\* C4: an upload to a texture handle that is not in the pool returns None,
\* submits nothing to the queue, records no copy and leaves the pool alone.
C4_MissingTextureNoSubmit ==
    [][(op' = "update" /\ tex_id \notin DOMAIN textures) =>
           /\ upload_ret' = None
           /\ submits' = submits
           /\ lastCopy' = lastCopy
           /\ textures' = textures]_vars

\* update ran after an earlier upload had succeeded and the texture had
\* then been removed from the pool.
C4_Witness ==
    /\ op = "update"
    /\ tex_id \notin DOMAIN textures
    /\ upload_ret = None
    /\ submits = 1
    /\ frame # NoFrame
    /\ panicked = "no"

\* C5 as stated: when the upload fails because the texture is gone, update
\* hands a failure to its caller.
C5_FailureSurfaced ==
    (op = "update" /\ panicked = "no" /\ upload_ret = None) =>
        update_ret = "failure"

\* C6: after a successful update the texture holds exactly the converted
\* image of the screen that update sampled, whatever it held before; an
\* update of the same screen again leaves the texture as it was.
C6_Inv ==
    (upload_ret = Some(TRUE) /\ tex_id \in DOMAIN textures) =>
        /\ Updated
        /\ textures[tex_id].bytes = RGBAImage(frame, width, height)
        /\ textures[tex_id].bytes = data
        /\ (\A c \in Coords(width, height) : frame[c] = 0) =>
               \A t \in 0 .. width * height - 1 :
                   BytesAt(textures[tex_id].bytes, 4 * t) = Black
        /\ (\A c \in Coords(width, height) : frame[c] = 1) =>
               \A t \in 0 .. width * height - 1 :
                   BytesAt(textures[tex_id].bytes, 4 * t) = White

C6_TextureIsLastFrame ==
    /\ []C6_Inv
    /\ [][(op = "update" /\ op' = "update" /\ upload_ret = Some(TRUE)
           /\ frame' = frame /\ submits' = submits + 1) =>
              textures' = textures]_vars

\* the second successful upload, of a screen with an unset pixel that was
\* set, or the other way round, in the frame uploaded before.
C6_Witness ==
    /\ op = "update"
    /\ upload_ret = Some(TRUE)
    /\ submits = 2
    /\ tex_id \in DOMAIN textures
    /\ \E c \in Coords(width, height) : frame[c] = 0
    /\ \E c \in Coords(width, height) : frame[c] = 1

\* C7: one texture is created, in new; tex_id never changes, nothing is
\* added to the pool, and every copy and every draw names tex_id.
C7_OneTexture ==
    /\ [](/\ creates = 1
          /\ lastCopy # NoCopy => lastCopy.id = tex_id
          /\ lastDraw # NoDraw => lastDraw.tex = tex_id)
    /\ [][/\ tex_id' = tex_id
          /\ next_id' = next_id
          /\ DOMAIN textures' \subseteq DOMAIN textures]_vars

\* two uploads and a draw have happened.
C7_Witness ==
    /\ submits = 2
    /\ op = "render"
    /\ lastCopy # NoCopy
    /\ lastDraw # NoDraw
    /\ tex_id \in DOMAIN textures

\* C8: every copy has offset 0, bytes_per_row = total_bytes / height =
\* width * 4 with no remainder, rows_per_image = height, origin (0,0,0), mip
\* level 0 and extent width x height x 1; 4 bytes a row for a 1 x 1 screen.
C8_CopyLayout ==
    lastCopy # NoCopy =>
        /\ lastCopy.layout.offset = 0
        /\ lastCopy.layout.bytes_per_row = Some(width * 4)
        /\ width * 4 * height = Len(data)
        /\ lastCopy.layout.rows_per_image = Some(height)
        /\ lastCopy.origin = [x |-> 0, y |-> 0, z |-> 0]
        /\ lastCopy.mip_level = 0
        /\ lastCopy.extent = [width |-> width, height |-> height,
                              depth_or_array_layers |-> 1]
        /\ (width = 1 /\ height = 1) =>
               Len(data) = 4 /\ lastCopy.layout.bytes_per_row = Some(4)

\* a copy of several rows of aligned width has been issued and submitted.
C8_Witness ==
    /\ lastCopy # NoCopy
    /\ submits >= 1
    /\ panicked = "no"
    /\ height > 1
    /\ lastCopy.layout.bytes_per_row = Some(4 * AlignedWidth)
    /\ lastCopy.layout.rows_per_image = Some(height)

\* C9 as stated: the bytes_per_row of every copy is a multiple of the row
\* pitch alignment of the copy API.
C9_RowPitchAligned ==
    lastCopy # NoCopy =>
        /\ lastCopy.layout.bytes_per_row # None
        /\ lastCopy.layout.bytes_per_row[1] % COPY_BYTES_PER_ROW_ALIGNMENT = 0

\* C10: update leaves color and scale as they are and the bytes it makes are
\* those of the screen alone, white or black; render leaves data,
\* width, height, tex_id and the pool (the texture bytes with it) as they
\* are.
C10_PresentationOnly ==
    [][/\ op' = "update" =>
              /\ color' = color
              /\ scale' = scale
              /\ frame' # frame => data' = RGBAImage(frame', width, height)
              /\ frame' = frame => data' = data
       /\ op' = "render" =>
              /\ data' = data
              /\ width' = width
              /\ height' = height
              /\ tex_id' = tex_id
              /\ textures' = textures]_vars

\* a draw of the uploaded texture, tinted and scaled, after an update.
C10_Witness ==
    /\ op = "render"
    /\ panicked = "no"
    /\ upload_ret = Some(TRUE)
    /\ tex_id \in DOMAIN textures
    /\ lastDraw # NoDraw
    /\ lastDraw.tint = to_array(InitColor)
    /\ lastDraw.size = <<width * InitScale, height * InitScale>>
    /\ textures[tex_id].bytes = RGBAImage(frame, width, height)
    /\ \E c \in Coords(width, height) : frame[c] = 1
====
